---- MODULE Spec2Model ----
(***************************************************************************)
(* Model of the IFD scoring engine of core.py: the scorer client chat,     *)
(* the single-pair operation calculate_ifd_score with its heuristic        *)
(* fallback, and the three-phase batch operation                           *)
(* calculate_batch_ifd_scores; and of verify_connection of app.py, which   *)
(* shows a caller how chat classified a failure.                           *)
(*                                                                         *)
(* Spec runs both scoring operations on short inputs against every         *)
(* modelled scorer outcome. SpecClient runs chat and verify_connection on  *)
(* their own, SpecLong runs the batch operation on long inputs, SpecTokens *)
(* runs one batch against every short response text.                       *)
(*                                                                         *)
(* Text is a sequence of one-character strings ("sup2" stands for the      *)
(* superscript digit U+00B2, a character for which str.isdigit() is true   *)
(* and int() fails).  Messages are sequences whose first element may be a  *)
(* fixed prefix.  Scores are integers in thousandths (0.5 is 500); a score *)
(* that is not yet rounded is an exact fraction <<num, den>>, den > 0.     *)
(***************************************************************************)
EXTENDS Integers, Sequences, FiniteSets, TLC

\* ------------------------------------------------------------------ bounds

\* Longest input sequence handed to the batch operation.
MaxPairs == 2

\* Largest batch_size handed to the batch operation (batch_size >= 1).
MaxBatchSize == 2

\* Invocations of chat in a run of the scorer client on its own.
MaxChatCalls == 3

\* Longest input of the long runs: Phase 3 passes the indices 0, 10 and 20.
MaxLongPairs == 21

\* Longest input of the one-batch runs, and longest enumerated response text.
MaxTokenPairs == 3
MaxTextLen == 3

\* ------------------------------------------------------- program constants

\* core.py:385-386, answers longer than this are cut in the prompt.
TruncLen == 200

\* core.py:216, word count at which the length factor saturates.
LengthSaturation == 200

\* core.py:332, the default batch_size.
DefaultBatchSize == 10

\* core.py:497, Phase 3 reports progress when i % 10 == 0.
FinalizeEvery == 10

\* core.py:416/418/422/428, the neutral score 0.5, in thousandths.
Neutral == 500

\* core.py:110 and 135, the single-pair default difficulty.
DefaultDifficulty == 5

\* ------------------------------------------------------------------- text

Digits == {"0", "1", "2", "3", "4", "5", "6", "7", "8", "9"}

\* str.isdigit(): true of the decimal digits and of superscript digits.
IsDigit(c) == c \in Digits \cup {"sup2"}

DigitVal(c) ==
    CASE c = "0" -> 0 [] c = "1" -> 1 [] c = "2" -> 2 [] c = "3" -> 3
      [] c = "4" -> 4 [] c = "5" -> 5 [] c = "6" -> 6 [] c = "7" -> 7
      [] c = "8" -> 8 [] c = "9" -> 9

\* The value int() fails with (ValueError).
NoInt == -1

RECURSIVE IntAcc(_, _, _)
IntAcc(s, k, acc) ==
    IF k > Len(s) THEN acc
    ELSE IF s[k] \notin Digits THEN NoInt
    ELSE IntAcc(s, k + 1, 10 * acc + DigitVal(s[k]))

\* int(s) for a text made of isdigit() characters: NoInt when it raises.
IntOf(s) == IF s = <<>> THEN NoInt ELSE IntAcc(s, 1, 0)

LowerMap ==
    "A" :> "a" @@ "B" :> "b" @@ "C" :> "c" @@ "D" :> "d" @@ "E" :> "e" @@
    "F" :> "f" @@ "G" :> "g" @@ "H" :> "h" @@ "I" :> "i" @@ "J" :> "j" @@
    "K" :> "k" @@ "L" :> "l" @@ "M" :> "m" @@ "N" :> "n" @@ "O" :> "o" @@
    "P" :> "p" @@ "Q" :> "q" @@ "R" :> "r" @@ "S" :> "s" @@ "T" :> "t" @@
    "U" :> "u" @@ "V" :> "v" @@ "W" :> "w" @@ "X" :> "x" @@ "Y" :> "y" @@
    "Z" :> "z"

\* str.lower()
Lower(s) == [k \in 1..Len(s) |-> IF s[k] \in DOMAIN LowerMap THEN LowerMap[s[k]] ELSE s[k]]

\* t in s
Contains(s, t) ==
    \E k \in 1..(Len(s) - Len(t) + 1) : SubSeq(s, k, k + Len(t) - 1) = t

Whitespace == {" ", "\n", "\t"}

RECURSIVE SplitWsFrom(_, _, _)
SplitWsFrom(s, k, cur) ==
    IF k > Len(s) THEN (IF cur = <<>> THEN <<>> ELSE <<cur>>)
    ELSE IF s[k] \in Whitespace
         THEN (IF cur = <<>> THEN <<>> ELSE <<cur>>) \o SplitWsFrom(s, k + 1, <<>>)
         ELSE SplitWsFrom(s, k + 1, Append(cur, s[k]))

\* str.split(): the maximal runs of non-whitespace characters.
SplitWs(s) == SplitWsFrom(s, 1, <<>>)

RECURSIVE SplitOnFrom(_, _, _, _)
SplitOnFrom(s, sep, k, cur) ==
    IF k > Len(s) THEN <<cur>>
    ELSE IF s[k] = sep THEN <<cur>> \o SplitOnFrom(s, sep, k + 1, <<>>)
    ELSE SplitOnFrom(s, sep, k + 1, Append(cur, s[k]))

\* str.split(sep): empty pieces are kept, the empty text gives one empty piece.
SplitOn(s, sep) == SplitOnFrom(s, sep, 1, <<>>)

\* ''.join(c for c in s if pred(c)), for the two predicates the code uses.
OnlyDigits(s) == SelectSeq(s, LAMBDA c : IsDigit(c))
RemoveSpaces(s) == SelectSeq(s, LAMBDA c : c # " ")

Range(f) == {f[k] : k \in DOMAIN f}

Min(a, b) == IF a < b THEN a ELSE b
Max(a, b) == IF a > b THEN a ELSE b

\* ------------------------------------------------------------- fractions

\* x < t, x > t for a fraction x and a threshold t in thousandths.
FracLess(x, t) == x[1] * 1000 < t * x[2]
FracGreater(x, t) == x[1] * 1000 > t * x[2]

\* The value is not clamped.
NoClamp(x) == x

\* min(1.0, max(0.0, x))
Clamp01(x) ==
    IF x[1] < 0 THEN <<0, 1>> ELSE IF x[1] > x[2] THEN <<1, 1>> ELSE x

\* round(x, 3) in thousandths.  No value the operations produce lies midway
\* between two thousandths, so the direction of a tie is immaterial.
Round3(x) == (2000 * x[1] + x[2]) \div (2 * x[2])

\* ------------------------------------------------------------------ state

VARIABLES
    client,              \* core.py:22-25, TRUE iff the client was built (credentials set)
    pc,                  \* "idle", the position inside the running operation, "returned"
    op,                  \* "none", "batch" or "single": the operation that was called
    pairs,               \* the input sequence of calculate_batch_ifd_scores
    batch_size,          \* its batch_size
    progress_callback,   \* TRUE iff a progress callback was supplied
    batch_idx,           \* the loop index of Phases 1 and 2 (0-based)
    i,                   \* the loop index of Phase 3 (0-based)
    conditioned_scores,  \* the Phase 1 accumulator
    direct_scores,       \* the Phase 2 accumulator
    results,             \* the output sequence
    pair,                \* the input of calculate_ifd_score
    conditioned_score,   \* its conditioned score, once computed
    ifd_result,          \* its returned record
    calls,               \* every invocation of chat, in order
    upstream_calls,      \* number of requests chat sent upstream
    prompt,              \* the listing of the last batch prompt, as the scorer sees it
    chat_result,         \* how the last chat call ended: ok with a text, or raised
                         \* (with the error, where the caller reads it)
    events,              \* every progress event handed to the callback, in order
    trace,               \* progress events and chat invocations, in program order
    upstream,            \* what the upstream did with the last request, kept in
                         \* the runs of the scorer client on its own
    verify_response      \* the JSON body verify_connection answered with

vars == <<client, pc, op, pairs, batch_size, progress_callback, batch_idx, i,
          conditioned_scores, direct_scores, results, pair, conditioned_score,
          ifd_result, calls, upstream_calls, prompt, chat_result, events, trace,
          upstream, verify_response>>

\* ----------------------------------------------------------- scorer client

ConfigError == <<"OpenAI client not initialized. Check API credentials.">>
RateLimitError == <<"API rate limit exceeded. Please try again later or upgrade your plan.">>
AuthError == <<"Invalid API key. Please check your credentials.">>
ApiError(error_msg) == <<"API error: ">> \o error_msg

\* What the upstream completion call can do: answer with a content, answer
\* with no content, or fail with a message.
Responses ==
    { <<"3", ",", "8">>,
      <<"5", ",", "5">>,
      <<"a", "b", "c", ",", "1", "1", ",", "-">>,
      <<>>,
      <<"8">>,
      <<" ", "1", "0", " ", ",", " ", "1", " ", ",", "2", ",", "9">>,
      <<"0">>,
      <<"7", "sup2">> }

UpstreamErrors ==
    { <<"4", "2", "9">>,
      <<"R", "a", "t", "e", " ", "L", "i", "m", "i", "t">>,
      <<"4", "0", "1">>,
      <<"U", "n", "a", "u", "t", "h", "o", "r", "i", "z", "e", "d">>,
      <<"4", "0", "1", " ", "r", "a", "t", "e", " ", "l", "i", "m", "i", "t">>,
      <<"t", "i", "m", "e", "o", "u", "t">> }

UpstreamOutcomes ==
    {[type |-> "content", text |-> r] : r \in Responses}
      \cup {[type |-> "no_content"]}
      \cup {[type |-> "error", msg |-> m] : m \in UpstreamErrors}

\* core.py:46-50, the error chat raises for an upstream failure message.
ClassifyError(error_msg) ==
    IF Contains(error_msg, <<"4", "2", "9">>)
       \/ Contains(Lower(error_msg), <<"r", "a", "t", "e", " ", "l", "i", "m", "i", "t">>)
    THEN RateLimitError
    ELSE IF Contains(error_msg, <<"4", "0", "1">>)
            \/ Contains(Lower(error_msg),
                        <<"u", "n", "a", "u", "t", "h", "o", "r", "i", "z", "e", "d">>)
    THEN AuthError
    ELSE ApiError(error_msg)

\* The characters of a message chunk: the literals of core.py:32, 47, 49 and 50
\* spelled out; a chunk that is one character stands for itself.
Spell(chunk) ==
    CASE chunk = "OpenAI client not initialized. Check API credentials." ->
        <<"O", "p", "e", "n", "A", "I", " ", "c", "l", "i", "e", "n", "t", " ", "n",
          "o", "t", " ", "i", "n", "i", "t", "i", "a", "l", "i", "z", "e", "d", ".",
          " ", "C", "h", "e", "c", "k", " ", "A", "P", "I", " ", "c", "r", "e", "d",
          "e", "n", "t", "i", "a", "l", "s", ".">>
      [] chunk = "API rate limit exceeded. Please try again later or upgrade your plan." ->
        <<"A", "P", "I", " ", "r", "a", "t", "e", " ", "l", "i", "m", "i", "t", " ",
          "e", "x", "c", "e", "e", "d", "e", "d", ".", " ", "P", "l", "e", "a", "s",
          "e", " ", "t", "r", "y", " ", "a", "g", "a", "i", "n", " ", "l", "a", "t",
          "e", "r", " ", "o", "r", " ", "u", "p", "g", "r", "a", "d", "e", " ", "y",
          "o", "u", "r", " ", "p", "l", "a", "n", ".">>
      [] chunk = "Invalid API key. Please check your credentials." ->
        <<"I", "n", "v", "a", "l", "i", "d", " ", "A", "P", "I", " ", "k", "e", "y",
          ".", " ", "P", "l", "e", "a", "s", "e", " ", "c", "h", "e", "c", "k", " ",
          "y", "o", "u", "r", " ", "c", "r", "e", "d", "e", "n", "t", "i", "a", "l",
          "s", ".">>
      [] chunk = "API error: " ->
        <<"A", "P", "I", " ", "e", "r", "r", "o", "r", ":", " ">>
      [] OTHER -> <<chunk>>

\* str(e) as characters
RECURSIVE Flatten(_)
Flatten(msg) == IF msg = <<>> THEN <<>> ELSE Spell(Head(msg)) \o Flatten(Tail(msg))

\* chat, given what the upstream does if it is asked: the text it returns, or
\* the ValueError it raises.
chat(up) ==
    IF ~client THEN [ok |-> FALSE, error |-> ConfigError]
    ELSE IF up.type = "content" THEN [ok |-> TRUE, text |-> up.text]
    ELSE IF up.type = "no_content" THEN [ok |-> TRUE, text |-> <<>>]
    ELSE [ok |-> FALSE, error |-> ClassifyError(up.msg)]

\* What the caller's try block sees of a chat call: the text, or an exception.
Outcome(r) == IF r.ok THEN [ok |-> TRUE, text |-> r.text] ELSE [ok |-> FALSE, text |-> <<>>]
NoCall == [ok |-> TRUE, text |-> <<>>]

\* No request was sent upstream yet; verify_connection has not answered yet.
NotAsked == [type |-> "none"]
NoResponse == [connected |-> "none"]

\* A mistaken order: the request is sent before the configuration is checked.
UpstreamRequestsUnchecked == IF client THEN 1 ELSE 1

\* chat sends one request upstream unless the configuration check fails.
UpstreamRequests == IF client THEN 1 ELSE 0

\* -------------------------------------------------------- shared scoring

\* The tier cut at the value-category thresholds 0.4 and 0.7.
TierAtCategoryThresholds(ifd_score) ==
    IF FracLess(ifd_score, 400) THEN "easy"
    ELSE IF FracLess(ifd_score, 700) THEN "medium"
    ELSE "hard"

\* core.py:152-157 and 518-523
Tier(ifd_score) ==
    IF FracLess(ifd_score, 330) THEN "easy"
    ELSE IF FracLess(ifd_score, 670) THEN "medium"
    ELSE "hard"

\* core.py:160-168 and 526-534
ValueCategory(ifd_score) ==
    IF FracGreater(ifd_score, 700) THEN "high"
    ELSE IF FracGreater(ifd_score, 400) THEN "medium"
    ELSE "low"

\* The texts of the medium and low categories exchanged.
RecommendationSwapped(value_category) ==
    CASE value_category = "high" -> <<"High value - prioritize for training">>
      [] value_category = "medium" -> <<"Low value - less useful for training">>
      [] value_category = "low" -> <<"Medium value - useful data">>

\* core.py:162, 165, 168 and 528, 531, 534
Recommendation(value_category) ==
    CASE value_category = "high" -> <<"High value - prioritize for training">>
      [] value_category = "medium" -> <<"Medium value - useful data">>
      [] value_category = "low" -> <<"Low value - less useful for training">>

\* dict.get(key, default)
Get(d, key, default) == IF key \in DOMAIN d THEN d[key] ELSE default

\* ------------------------------------------------- single-pair scoring

\* core.py:109-110 and 134-135: [int(c) for c in response if c.isdigit()],
\* then the first number, or 5.  NoInt when int(c) raises.
FirstDigitDifficulty(text) ==
    LET digit_chars == OnlyDigits(text)
    IN  IF \E k \in 1..Len(digit_chars) : IntOf(<<digit_chars[k]>>) = NoInt THEN NoInt
        ELSE IF digit_chars = <<>> THEN DefaultDifficulty
        ELSE IntOf(<<digit_chars[1]>>)

\* The message of the ValueError int(c) raises.
IntError == <<"invalid literal for int() with base 10">>

\* difficulty / 10.0, in thousandths
DifficultyScore(difficulty) == difficulty * 100

\* core.py:140-149
SingleIfd(conditioned, direct) ==
    IF direct > 0
    THEN Clamp01(<<2 * conditioned - direct, 3 * direct>>)
    ELSE <<conditioned, 1000>>

technical_terms ==
    { <<"a", "r", "k", "e", "o", "l", "o", "g", "i">>,
      <<"i", "n", "t", "e", "r", "p", "r", "e", "t", "a", "s", "i">>,
      <<"a", "n", "a", "l", "i", "s", "i", "s">>,
      <<"m", "e", "t", "o", "d", "o", "l", "o", "g", "i">>,
      <<"s", "i", "n", "e", "r", "g", "i", "s">>,
      <<"f", "e", "n", "o", "m", "e", "n", "o", "l", "o", "g", "i">>,
      <<"e", "p", "i", "s", "t", "e", "m", "o", "l", "o", "g", "i">>,
      <<"o", "n", "t", "o", "l", "o", "g", "i">>,
      <<"d", "e", "s", "k", "r", "i", "p", "t", "i", "f">>,
      <<"k", "u", "a", "l", "i", "t", "a", "t", "i", "f">>,
      <<"k", "u", "a", "n", "t", "i", "t", "a", "t", "i", "f">>,
      <<"e", "m", "p", "i", "r", "i", "s">> }

\* core.py:189-221.  With n words, u of them distinct, and t lexicon terms
\* found, 0.3*u/n + 0.3*t/n + 0.4*min(n/200, 1) is the fraction below.
estimate_ifd_heuristic(answer) ==
    LET words == SplitWs(Lower(answer))
        n == Len(words)
        unique_words == Cardinality(Range(words))
        technical_count ==
            Cardinality({term \in technical_terms : Contains(Lower(answer), term)})
    IN  IF n = 0 THEN <<0, 1>>
        ELSE Clamp01(<<600 * (unique_words + technical_count)
                         + (800 \div LengthSaturation) * Min(n, LengthSaturation) * n,
                       2000 * n>>)

\* core.py:77-84
InvalidResult ==
    [ifd_score |-> 0, conditioned_score |-> 0, direct_score |-> 0,
     tier |-> "medium", value_category |-> "low",
     recommendation |-> <<"Invalid pair - missing question or answer">>]

\* A mistaken handler: it forgets to zero the conditioned score.
FallbackResultKeepsScore(answer, e) ==
    [ifd_score |-> Round3(estimate_ifd_heuristic(answer)),
     conditioned_score |-> conditioned_score, direct_score |-> 0,
     tier |-> "medium", value_category |-> "medium",
     recommendation |-> <<"Heuristic scoring: ">> \o e]

\* core.py:170-187, the record returned after an exception e.
FallbackResult(answer, e) ==
    [ifd_score |-> Round3(estimate_ifd_heuristic(answer)),
     conditioned_score |-> 0, direct_score |-> 0,
     tier |-> "medium", value_category |-> "medium",
     recommendation |-> <<"Heuristic scoring: ">> \o e]

\* core.py:138-168 and 180-187, the record returned after two scorer answers.
ScoredResult(conditioned, direct) ==
    LET ifd_score == SingleIfd(conditioned, direct)
    IN  [ifd_score |-> Round3(ifd_score),
         conditioned_score |-> conditioned, direct_score |-> direct,
         tier |-> Tier(ifd_score),
         value_category |-> ValueCategory(ifd_score),
         recommendation |-> Recommendation(ValueCategory(ifd_score))]

\* ------------------------------------------------------- batch scoring

\* core.py:358-361, batch k (0-based) of the input
Batch(ps, size, k) == SubSeq(ps, k * size + 1, Min((k + 1) * size, Len(ps)))

\* A last, shorter batch is not counted.
TotalBatchesFloor(n, size) == n \div size

\* len(range(0, n, size))
TotalBatches(n, size) == (n + size - 1) \div size

\* core.py:385-387 and 450-452, the answer as the prompt shows it
PromptAnswer(answer) ==
    IF Len(answer) > TruncLen THEN SubSeq(answer, 1, TruncLen) \o <<".", ".", ".">>
    ELSE answer

\* core.py:384-389, the numbered listing of Phase 1
ConditionedListing(batch) ==
    [j \in 1..Len(batch) |->
        [number |-> j, question |-> batch[j].question,
         answer |-> PromptAnswer(batch[j].answer)]]

\* core.py:449-454, the numbered listing of Phase 2
DirectListing(batch) ==
    [j \in 1..Len(batch) |-> [number |-> j, answer |-> PromptAnswer(batch[j].answer)]]

\* A mistaken range check: 0 passes and scores 0.0.
TokenScoreAcceptsZero(s) ==
    LET num == IntOf(OnlyDigits(s))
    IN  IF num = NoInt THEN Neutral
        ELSE IF 0 <= num /\ num <= 10 THEN num * 100
        ELSE Neutral

\* core.py:411-418 and 476-483, the score of one comma-delimited token
TokenScore(s) ==
    LET num == IntOf(OnlyDigits(s))
    IN  IF num = NoInt THEN Neutral
        ELSE IF 1 <= num /\ num <= 10 THEN num * 100
        ELSE Neutral

\* core.py:408-418 and 473-483
ParseScores(text) ==
    LET score_strs == SplitOn(RemoveSpaces(text), ",")
    IN  [k \in 1..Len(score_strs) |-> TokenScore(score_strs[k])]

\* The scores are cut to n but a short list is not padded.
FitScoresNoPad(scores, n) == SubSeq(scores, 1, Min(n, Len(scores)))

\* core.py:421-424 and 485-488: pad with 0.5 to n scores, keep the first n
FitScores(scores, n) ==
    [k \in 1..n |-> IF k <= Len(scores) THEN scores[k] ELSE Neutral]

\* A failed batch scored 0.0 instead of the neutral 0.5.
FailedBatchScoresZero(n) == [k \in 1..n |-> 0]

\* core.py:426-428 and 490-492
FailedBatchScores(n) == [k \in 1..n |-> Neutral]

\* A mistaken extend: the parsed list is added as it is, neither padded nor cut
\* to the batch.
BatchScoresUnfitted(r, n) == IF r.ok THEN ParseScores(r.text) ELSE FailedBatchScores(n)

\* core.py:399-428 and 464-492, what one batch adds to its phase's accumulator
BatchScores(r, n) ==
    IF r.ok THEN FitScores(ParseScores(r.text), n) ELSE FailedBatchScores(n)

\* The batch path normalised with the single-pair path's shift and scale.
BatchIfdShiftScale(conditioned, direct) ==
    IF direct > 0
    THEN Clamp01(<<2 * conditioned - direct, 3 * direct>>)
    ELSE <<conditioned, 1000>>

\* core.py:511-515
BatchIfd(conditioned, direct) ==
    IF direct > 0 THEN Clamp01(<<conditioned, 3 * direct>>) ELSE <<conditioned, 1000>>

\* core.py:507-508
ScoreAt(scores, k) == IF k < Len(scores) THEN scores[k + 1] ELSE Neutral

\* The record keeps the answer as the prompt shows it, not the pair's own.
BatchResultPromptAnswer(p, conditioned, direct) ==
    LET ifd_score == BatchIfd(conditioned, direct)
    IN  [question |-> Get(p, "question", <<>>),
         answer |-> PromptAnswer(Get(p, "answer", <<>>)),
         source |-> Get(p, "source", <<>>),
         ifd_score |-> Round3(ifd_score),
         conditioned_score |-> conditioned, direct_score |-> direct,
         tier |-> Tier(ifd_score),
         value_category |-> ValueCategory(ifd_score),
         recommendation |-> Recommendation(ValueCategory(ifd_score))]

\* core.py:507-546, the record Phase 3 appends for pair p
BatchResult(p, conditioned, direct) ==
    LET ifd_score == BatchIfd(conditioned, direct)
    IN  [question |-> Get(p, "question", <<>>),
         answer |-> Get(p, "answer", <<>>),
         source |-> Get(p, "source", <<>>),
         ifd_score |-> Round3(ifd_score),
         conditioned_score |-> conditioned, direct_score |-> direct,
         tier |-> Tier(ifd_score),
         value_category |-> ValueCategory(ifd_score),
         recommendation |-> Recommendation(ValueCategory(ifd_score))]

\* ----------------------------------------------------------------- inputs

LongAnswer == [k \in 1..(TruncLen + 1) |-> "a"]

\* The pairs a caller hands to the batch operation: a pair with a source and
\* an answer longer than the prompt shows, and a pair with an empty question
\* and no source.
PairChoices ==
    { [question |-> <<"Q", "1">>, answer |-> LongAnswer, source |-> <<"s">>],
      [question |-> <<>>, answer |-> <<"a", " ", "b">>] }

RECURSIVE SeqsUpTo(_, _)
SeqsUpTo(S, n) ==
    IF n = 0 THEN {<<>>}
    ELSE LET shorter == SeqsUpTo(S, n - 1)
         IN  shorter \cup {Append(q, x) : q \in {t \in shorter : Len(t) = n - 1}, x \in S}

InputSequences == SeqsUpTo(PairChoices, MaxPairs)

\* The pairs a caller hands to the single-pair operation.
SingleAnswers ==
    { <<>>,
      <<" ">>,
      <<"a", " ", "b">>,
      <<"a", " ", "a">>,
      <<"a", " ", "b", " ", "c">>,
      <<"A", "n", "a", "l", "i", "s", "i", "s", " ", "e", "m", "p", "i", "r", "i", "s">>,
      <<"a", "n", "a", "l", "i", "s", "i", "s", "e", "m", "p", "i", "r", "i", "s",
        "o", "n", "t", "o", "l", "o", "g", "i">> }

SinglePairs ==
    {[question |-> q, answer |-> a] : q \in {<<>>, <<"Q", "1">>}, a \in SingleAnswers}
      \cup {[answer |-> <<"a">>]}

NoPair == [question |-> <<>>, answer |-> <<>>]
NoResult == [tier |-> "none"]

\* ------------------------------------------------------------------- Init

Init ==
    /\ client \in BOOLEAN
    /\ pc = "idle"
    /\ op = "none"
    /\ pairs = <<>>
    /\ batch_size = 1
    /\ progress_callback = FALSE
    /\ batch_idx = 0
    /\ i = 0
    /\ conditioned_scores = <<>>
    /\ direct_scores = <<>>
    /\ results = <<>>
    /\ pair = NoPair
    /\ conditioned_score = 0
    /\ ifd_result = NoResult
    /\ calls = <<>>
    /\ upstream_calls = 0
    /\ prompt = <<>>
    /\ chat_result = NoCall
    /\ events = <<>>
    /\ trace = <<>>
    /\ upstream = NotAsked
    /\ verify_response = NoResponse

\* ------------------------------------------------- calculate_batch_ifd_scores

total_pairs == Len(pairs)
total_batches == TotalBatches(Len(pairs), batch_size)

\* core.py:373-381
ConditionedEvent ==
    [phase |-> "scoring_conditioned", batch |-> batch_idx + 1,
     total_batches |-> total_batches,
     pairs_done |-> Min((batch_idx + 1) * batch_size, total_pairs),
     total_pairs |-> total_pairs]

\* core.py:438-446
DirectEvent ==
    [phase |-> "scoring_direct", batch |-> batch_idx + 1,
     total_batches |-> total_batches,
     pairs_done |-> (total_pairs \div 2)
                      + (Min((batch_idx + 1) * batch_size, total_pairs) \div 2),
     total_pairs |-> total_pairs]

\* core.py:499-505
FinalizingEvent ==
    [phase |-> "finalizing", pairs_done |-> i, total_pairs |-> total_pairs]

\* The entries of trace: a progress event handed to the callback (core.py:372,
\* 437, 498) and an invocation of chat (core.py:400, 465, 101, 127).
EventEntry(phase) == [kind |-> "event", phase |-> phase]
ChatEntry(phase, k) == [kind |-> "chat", phase |-> phase, batch |-> k]

\* Where control is after the entry code: a loop over no batches, or over no
\* pairs, runs no iteration.
AfterEntry(n, batches) ==
    IF batches > 0 THEN "phase1" ELSE IF n > 0 THEN "phase3" ELSE "returned"

\* core.py:330-367, the call: the accumulators are fresh, the batches are cut.
CallBatchWith(inputs, sizes) ==
    /\ pc = "idle"
    /\ op = "none"
    /\ \E ps \in inputs, size \in sizes, cb \in BOOLEAN :
          /\ pairs' = ps
          /\ batch_size' = size
          /\ progress_callback' = cb
          /\ pc' = AfterEntry(Len(ps), TotalBatches(Len(ps), size))
    /\ op' = "batch"
    /\ batch_idx' = 0
    /\ i' = 0
    /\ conditioned_scores' = <<>>
    /\ direct_scores' = <<>>
    /\ results' = <<>>
    /\ UNCHANGED <<client, pair, conditioned_score, ifd_result, calls,
                   upstream_calls, prompt, chat_result, events, trace, upstream,
                   verify_response>>

CallBatch == CallBatchWith(InputSequences, 1..MaxBatchSize)

\* core.py:369-428, one iteration of the Phase 1 loop
Phase1BatchWith(outcomes) ==
    /\ pc = "phase1"
    /\ batch_idx < total_batches
    /\ LET batch == Batch(pairs, batch_size, batch_idx)
       IN  /\ events' = IF progress_callback THEN Append(events, ConditionedEvent)
                        ELSE events
           /\ prompt' = ConditionedListing(batch)
           /\ trace' = (IF progress_callback
                         THEN Append(trace, EventEntry("scoring_conditioned")) ELSE trace)
                          \o <<ChatEntry(1, batch_idx)>>
           /\ calls' = Append(calls, [phase |-> 1, batch |-> batch_idx])
           /\ upstream_calls' = upstream_calls + UpstreamRequests
           /\ \E up \in outcomes :
                 LET r == chat(up)
                 IN  /\ chat_result' = Outcome(r)
                     /\ conditioned_scores' =
                            conditioned_scores \o BatchScores(r, Len(batch))
    /\ IF batch_idx + 1 < total_batches
       THEN /\ batch_idx' = batch_idx + 1
            /\ pc' = "phase1"
       ELSE /\ batch_idx' = 0
            /\ pc' = "phase2"
    /\ UNCHANGED <<client, op, pairs, batch_size, progress_callback, i,
                   direct_scores, results, pair, conditioned_score, ifd_result,
                   upstream, verify_response>>

Phase1Batch == Phase1BatchWith(UpstreamOutcomes)

\* core.py:434-492, one iteration of the Phase 2 loop
Phase2BatchWith(outcomes) ==
    /\ pc = "phase2"
    /\ batch_idx < total_batches
    /\ LET batch == Batch(pairs, batch_size, batch_idx)
       IN  /\ events' = IF progress_callback THEN Append(events, DirectEvent)
                        ELSE events
           /\ prompt' = DirectListing(batch)
           /\ trace' = (IF progress_callback
                         THEN Append(trace, EventEntry("scoring_direct")) ELSE trace)
                          \o <<ChatEntry(2, batch_idx)>>
           /\ calls' = Append(calls, [phase |-> 2, batch |-> batch_idx])
           /\ upstream_calls' = upstream_calls + UpstreamRequests
           /\ \E up \in outcomes :
                 LET r == chat(up)
                 IN  /\ chat_result' = Outcome(r)
                     /\ direct_scores' = direct_scores \o BatchScores(r, Len(batch))
    /\ IF batch_idx + 1 < total_batches
       THEN /\ batch_idx' = batch_idx + 1
            /\ pc' = "phase2"
       ELSE /\ batch_idx' = 0
            /\ pc' = "phase3"
    /\ UNCHANGED <<client, op, pairs, batch_size, progress_callback, i,
                   conditioned_scores, results, pair, conditioned_score, ifd_result,
                   upstream, verify_response>>

Phase2Batch == Phase2BatchWith(UpstreamOutcomes)

\* A mistaken condition: reporting after every tenth pair.
ReportsAfterTenth(idx) == (idx + 1) % FinalizeEvery = 0

\* core.py:497, `i % 10 == 0`: the pairs before which Phase 3 reports.
ReportsFinalizing(idx) == idx % FinalizeEvery = 0

\* core.py:496-550, one iteration of the Phase 3 loop; the last one returns
Phase3Pair ==
    /\ pc = "phase3"
    /\ i < total_pairs
    /\ events' = IF progress_callback /\ ReportsFinalizing(i)
                 THEN Append(events, FinalizingEvent)
                 ELSE events
    /\ trace' = IF progress_callback /\ ReportsFinalizing(i)
                THEN Append(trace, EventEntry("finalizing"))
                ELSE trace
    /\ results' = Append(results,
                         BatchResult(pairs[i + 1], ScoreAt(conditioned_scores, i),
                                     ScoreAt(direct_scores, i)))
    /\ i' = i + 1
    /\ pc' = IF i + 1 < total_pairs THEN "phase3" ELSE "returned"
    /\ UNCHANGED <<client, op, pairs, batch_size, progress_callback, batch_idx,
                   conditioned_scores, direct_scores, pair, conditioned_score,
                   ifd_result, calls, upstream_calls, prompt, chat_result,
                   upstream, verify_response>>

\* ------------------------------------------------------- calculate_ifd_score

\* core.py:73-84: `not question or not answer`, a missing key reading as ''
IsInvalidPair(p) == Get(p, "question", <<>>) = <<>> \/ Get(p, "answer", <<>>) = <<>>

\* core.py:52-84, the call and the validity check
CallSingle ==
    /\ pc = "idle"
    /\ op = "none"
    /\ \E p \in SinglePairs :
          /\ pair' = p
          /\ IF IsInvalidPair(p)
             THEN /\ ifd_result' = InvalidResult
                  /\ pc' = "returned"
             ELSE /\ ifd_result' = NoResult
                  /\ pc' = "conditioned"
    /\ op' = "single"
    /\ conditioned_score' = 0
    /\ UNCHANGED <<client, pairs, batch_size, progress_callback, batch_idx, i,
                   conditioned_scores, direct_scores, results, calls,
                   upstream_calls, prompt, chat_result, events, trace, upstream,
                   verify_response>>

\* core.py:86-111 and 170-187: the conditioned call; a failure of the call or
\* of the parse ends the operation with the heuristic result
SingleConditioned ==
    /\ pc = "conditioned"
    /\ calls' = Append(calls, [phase |-> 1, batch |-> 0])
    /\ trace' = Append(trace, ChatEntry(1, 0))
    /\ upstream_calls' = upstream_calls + UpstreamRequests
    /\ \E up \in UpstreamOutcomes :
          LET r == chat(up)
              difficulty == IF r.ok THEN FirstDigitDifficulty(r.text) ELSE NoInt
          IN  /\ chat_result' = r
              /\ IF r.ok /\ difficulty # NoInt
                 THEN /\ conditioned_score' = DifficultyScore(difficulty)
                      /\ ifd_result' = ifd_result
                      /\ pc' = "direct"
                 ELSE /\ conditioned_score' = 0
                      /\ ifd_result' = FallbackResult(pair.answer,
                                            IF r.ok THEN IntError ELSE r.error)
                      /\ pc' = "returned"
    /\ UNCHANGED <<client, op, pairs, batch_size, progress_callback, batch_idx, i,
                   conditioned_scores, direct_scores, results, pair, prompt, events,
                   upstream, verify_response>>

\* core.py:113-187: the direct call, then the score, tier and category
SingleDirect ==
    /\ pc = "direct"
    /\ calls' = Append(calls, [phase |-> 2, batch |-> 0])
    /\ trace' = Append(trace, ChatEntry(2, 0))
    /\ upstream_calls' = upstream_calls + UpstreamRequests
    /\ \E up \in UpstreamOutcomes :
          LET r == chat(up)
              difficulty == IF r.ok THEN FirstDigitDifficulty(r.text) ELSE NoInt
          IN  /\ chat_result' = r
              /\ IF r.ok /\ difficulty # NoInt
                 THEN ifd_result' = ScoredResult(conditioned_score,
                                                 DifficultyScore(difficulty))
                 ELSE ifd_result' = FallbackResult(pair.answer,
                                          IF r.ok THEN IntError ELSE r.error)
    /\ pc' = "returned"
    /\ UNCHANGED <<client, op, pairs, batch_size, progress_callback, batch_idx, i,
                   conditioned_scores, direct_scores, results, pair,
                   conditioned_score, prompt, events, upstream, verify_response>>

\* ----------------------------------------------------- chat, called directly

\* core.py:29-50, one invocation of chat by a caller that lets its error through.
ChatCall ==
    /\ pc = "idle"
    /\ op \in {"none", "client"}
    /\ Len(calls) < MaxChatCalls
    /\ calls' = Append(calls, [phase |-> 0, batch |-> 0])
    /\ trace' = Append(trace, ChatEntry(0, 0))
    /\ upstream_calls' = upstream_calls + UpstreamRequests
    /\ \E up \in UpstreamOutcomes :
          /\ upstream' = IF client THEN up ELSE upstream
          /\ chat_result' = chat(up)
    /\ op' = "client"
    /\ UNCHANGED <<client, pc, pairs, batch_size, progress_callback, batch_idx, i,
                   conditioned_scores, direct_scores, results, pair,
                   conditioned_score, ifd_result, prompt, events, verify_response>>

\* ---------------------------------------------------------- verify_connection

NotConfigured == [connected |-> FALSE, error |-> <<"API credentials not configured">>]
Connected ==
    [connected |-> TRUE, model |-> "MODEL_SCORER",
     message |-> <<"Successfully connected to AI API">>]
NoTestResponse == [connected |-> FALSE, error |-> <<"No response from API">>]

\* app.py:329-336, the body answered for a ValueError of chat
ErrorBody(error_msg) ==
    [connected |-> FALSE, error |-> error_msg,
     is_rate_limit |-> Contains(Lower(Flatten(error_msg)),
                                <<"r", "a", "t", "e", " ", "l", "i", "m", "i", "t">>),
     is_auth_error |-> Contains(Lower(Flatten(error_msg)),
                                <<"i", "n", "v", "a", "l", "i", "d", " ", "a", "p", "i",
                                  " ", "k", "e", "y">>)]

\* app.py:299-336: credentials unset (core.py:21-24: exactly when no client was
\* built) answers at once; otherwise one test call of chat decides the body.
VerifyConnection ==
    /\ pc = "idle"
    /\ op \in {"none", "client"}
    /\ Len(calls) < MaxChatCalls
    /\ IF ~client
       THEN /\ verify_response' = NotConfigured
            /\ UNCHANGED <<calls, trace, upstream_calls, upstream, chat_result>>
       ELSE /\ calls' = Append(calls, [phase |-> 0, batch |-> 0])
            /\ trace' = Append(trace, ChatEntry(0, 0))
            /\ upstream_calls' = upstream_calls + UpstreamRequests
            /\ \E up \in UpstreamOutcomes :
                  LET test_response == chat(up)
                  IN  /\ upstream' = up
                      /\ chat_result' = test_response
                      /\ verify_response' =
                             IF ~test_response.ok THEN ErrorBody(test_response.error)
                             ELSE IF Len(test_response.text) > 0 THEN Connected
                             ELSE NoTestResponse
    /\ op' = "client"
    /\ UNCHANGED <<client, pc, pairs, batch_size, progress_callback, batch_idx, i,
                   conditioned_scores, direct_scores, results, pair,
                   conditioned_score, ifd_result, prompt, events>>

\* ------------------------------------------------------------------- Spec

Next ==
    \/ CallBatch
    \/ Phase1Batch
    \/ Phase2Batch
    \/ Phase3Pair
    \/ CallSingle
    \/ SingleConditioned
    \/ SingleDirect

Spec == Init /\ [][Next]_vars

\* ------------------------------------------------ the scorer client on its own

NextClient ==
    \/ ChatCall
    \/ VerifyConnection

SpecClient == Init /\ [][NextClient]_vars

\* ------------------------------------------- long inputs, a scorer of one mind

\* Inputs long enough for Phase 3 to reach several multiples of FinalizeEvery,
\* under a scorer whose every outcome rates every pair 0.5.
LongPair == [question |-> <<"Q", "1">>, answer |-> <<"a", " ", "b">>]
LongInputs == {[k \in 1..n |-> LongPair] : n \in 0..MaxLongPairs}
LongBatchSizes == {1, 4, DefaultBatchSize}
QuietOutcomes ==
    {[type |-> "content", text |-> <<"5", ",", "5">>],
     [type |-> "error", msg |-> <<"t", "i", "m", "e", "o", "u", "t">>]}

CallBatchLong == CallBatchWith(LongInputs, LongBatchSizes)
Phase1BatchQuiet == Phase1BatchWith(QuietOutcomes)
Phase2BatchQuiet == Phase2BatchWith(QuietOutcomes)

NextLong ==
    \/ CallBatchLong
    \/ Phase1BatchQuiet
    \/ Phase2BatchQuiet
    \/ Phase3Pair

SpecLong == Init /\ [][NextLong]_vars

\* ------------------------------------------------ one batch, every short text

\* Every response text of up to MaxTextLen characters over a digit that scores,
\* a digit that does not, and the delimiter; and texts with other characters.
TokenAlphabet == {"1", "0", ","}
TokenTexts ==
    SeqsUpTo(TokenAlphabet, MaxTextLen)
      \cup { <<"a", "b", "c", ",", "1", "1", ",", "-">>,
             <<" ", "1", "0", " ", ",", " ", "1", " ", ",", "2", ",", "9">>,
             <<"7", "sup2", ",", "x", "9", "y">>,
             <<"x", "1", "y", "0", ",", "0", "0", "3">> }
TokenOutcomes ==
    {[type |-> "content", text |-> r] : r \in TokenTexts}
      \cup {[type |-> "no_content"],
            [type |-> "error", msg |-> <<"t", "i", "m", "e", "o", "u", "t">>]}
TokenInputs == {[k \in 1..n |-> LongPair] : n \in 1..MaxTokenPairs}

CallBatchDefault == CallBatchWith(TokenInputs, {DefaultBatchSize})
Phase1BatchTexts == Phase1BatchWith(TokenOutcomes)
Phase2BatchTexts == Phase2BatchWith(TokenOutcomes)

NextTokens ==
    \/ CallBatchDefault
    \/ Phase1BatchTexts
    \/ Phase2BatchTexts
    \/ Phase3Pair

SpecTokens == Init /\ [][NextTokens]_vars

\* ------------------------------------------------------------ properties

\* The 1-based input positions of batch k of the running batch operation.
BatchPositions(k) == (k * batch_size + 1)..Min((k + 1) * batch_size, Len(pairs))

LastCall == calls[Len(calls)]

\* In every phase the loop has an iteration left to run: nothing stops the
\* operation before it returns.
BatchRuns ==
    /\ pc = "phase1" => batch_idx * batch_size < Len(pairs)
    /\ pc = "phase2" => batch_idx * batch_size < Len(pairs)
    /\ pc = "phase3" => i < Len(pairs)

\* C1: the batch operation returns as many records as it was given pairs, and
\* record k carries the question, the whole answer and the source (empty
\* when the pair has none) of pair k, whatever the scorer did.
C1_OutputMatchesInput ==
    op = "batch" =>
        /\ Len(results) <= Len(pairs)
        /\ pc = "returned" => Len(results) = Len(pairs)
        /\ \A k \in 1..Len(results) :
              /\ results[k].question = pairs[k].question
              /\ results[k].answer = pairs[k].answer
              /\ results[k].source = (IF "source" \in DOMAIN pairs[k]
                                      THEN pairs[k].source ELSE <<>>)

\* Two different pairs, scored one per batch, the last scorer call having
\* failed; the second answer is longer than the prompt showed of it.
C1_Witness ==
    /\ op = "batch" /\ pc = "returned"
    /\ Len(pairs) = 2 /\ batch_size = 1
    /\ pairs[1] # pairs[2]
    /\ Len(pairs[2].answer) > TruncLen
    /\ prompt[1].answer # pairs[2].answer
    /\ results[2].answer = pairs[2].answer
    /\ results[1].source = <<>> /\ results[2].source = <<"s">>
    /\ ~chat_result.ok

\* C2: without credentials the batch operation does not return a scored
\* output for a non-empty input (it aborts with the configuration error).
C2_AbortsWithoutCredentials ==
    (op = "batch" /\ ~client /\ Len(pairs) > 0) => pc # "returned"

\* C3 (state part): right after a failed scorer call the accumulator of the
\* call's phase holds 0.5 for every pair of the call's batch; each record
\* carries the accumulated scores of its pair; the operation is never stopped
\* and, once returned, has called the scorer for every batch in both phases.
C3_State ==
    op = "batch" =>
        /\ (calls # <<>> /\ ~chat_result.ok) =>
              LET acc == IF LastCall.phase = 1 THEN conditioned_scores
                         ELSE direct_scores
              IN  \A j \in BatchPositions(LastCall.batch) :
                     j <= Len(acc) /\ acc[j] = 500
        /\ \A k \in 1..Len(results) :
              /\ k <= Len(conditioned_scores) /\ k <= Len(direct_scores)
              /\ results[k].conditioned_score = conditioned_scores[k]
              /\ results[k].direct_score = direct_scores[k]
        /\ BatchRuns
        /\ pc = "returned" =>
              /\ Len(results) = Len(pairs)
              /\ \A k \in 0..(Len(pairs) - 1) :
                    k * batch_size < Len(pairs) =>
                       \E a, b \in 1..Len(calls) :
                          /\ calls[a] = [phase |-> 1, batch |-> k]
                          /\ calls[b] = [phase |-> 2, batch |-> k]

\* C3 (step part): a score, once accumulated, is never changed.
C3_Step ==
    (op = "batch" /\ op' = "batch") =>
        /\ Len(conditioned_scores') >= Len(conditioned_scores)
        /\ Len(direct_scores') >= Len(direct_scores)
        /\ \A k \in 1..Len(conditioned_scores) :
              conditioned_scores'[k] = conditioned_scores[k]
        /\ \A k \in 1..Len(direct_scores) : direct_scores'[k] = direct_scores[k]

\* C3: a failed scorer call gives every pair of its batch the score 0.5 for
\* that phase, in the accumulator and in the returned record, and the other
\* batches and phases are processed and the operation returns.
C3_FailedBatchNeutral == []C3_State /\ [][C3_Step]_vars

\* With credentials set, the Phase 2 call of the second of two batches
\* failed: its pair has the direct score 0.5, the other calls gave other
\* scores, and the operation has returned.
C3_Witness ==
    /\ op = "batch" /\ pc = "returned"
    /\ Len(pairs) = 2 /\ batch_size = 1 /\ client
    /\ ~chat_result.ok
    /\ conditioned_scores = <<800, 300>>
    /\ direct_scores = <<300, 500>>
    /\ results[2].direct_score = 500

\* How many pairs the batches before batch k hold.
PairsBefore(k) == Min(k * batch_size, Len(pairs))

\* C4: whatever text the scorer returns, a batch of k pairs adds exactly k
\* scores to its phase's accumulator: position j of the batch gets the score
\* of the j-th comma-delimited token, or 0.5 when the text has fewer than j
\* tokens, and tokens after the k-th add nothing; so each accumulator holds
\* one score per pair of the batches processed, and one per input pair once
\* its phase has ended.  No text stops the operation.
C4_OneScorePerPair ==
    op = "batch" =>
        /\ BatchRuns
        /\ pc = "phase1" => /\ Len(conditioned_scores) = PairsBefore(batch_idx)
                            /\ Len(direct_scores) = 0
        /\ pc = "phase2" => /\ Len(conditioned_scores) = Len(pairs)
                            /\ Len(direct_scores) = PairsBefore(batch_idx)
        /\ pc \in {"phase3", "returned"} =>
              /\ Len(conditioned_scores) = Len(pairs)
              /\ Len(direct_scores) = Len(pairs)
        /\ (calls # <<>> /\ chat_result.ok) =>
              LET acc == IF LastCall.phase = 1 THEN conditioned_scores
                         ELSE direct_scores
                  tokens == SplitOn(RemoveSpaces(chat_result.text), ",")
                  first == PairsBefore(LastCall.batch)
              IN  \A j \in 1..(Len(acc) - first) :
                     acc[first + j] = IF j <= Len(tokens)
                                      THEN TokenScore(tokens[j]) ELSE 500

\* A batch of two pairs answered with one score ("8"): the second pair got
\* 0.5; earlier, the Phase 1 answer had four scores for the two pairs.
C4_Witness ==
    /\ op = "batch" /\ pc = "returned"
    /\ Len(pairs) = 2 /\ batch_size = 2
    /\ chat_result = [ok |-> TRUE, text |-> <<"8">>]
    /\ direct_scores = <<800, 500>>
    /\ conditioned_scores = <<1000, 100>>

\* `not question or not answer` for a pair as the caller gave it.
EmptyPair(p) ==
    \/ "question" \notin DOMAIN p \/ p.question = <<>>
    \/ "answer" \notin DOMAIN p \/ p.answer = <<>>

SingleReturned == op = "single" /\ pc = "returned"

\* The single-pair operation returned a result computed from two scorer
\* answers: the pair was valid, both calls were made and the last one gave a
\* text whose digits int() accepts.
SingleScored ==
    /\ SingleReturned
    /\ ~EmptyPair(pair)
    /\ Len(calls) = 2
    /\ chat_result.ok
    /\ "sup2" \notin Range(chat_result.text)

\* The single-pair operation returned the heuristic result.
SingleFellBack == SingleReturned /\ ~EmptyPair(pair) /\ ~SingleScored

Sentinel(r) == r.ifd_score = 0 /\ r.tier = "medium" /\ r.value_category = "low"

\* C5: a pair with an empty question or an empty answer yields ifd_score 0.0,
\* tier medium and category low, in the batch operation as in the
\* single-pair operation, whatever the scorer returns.  Stated for runs with
\* credentials set, where the scorer is really asked.
C5_EmptyPairSentinel ==
    client =>
        /\ op = "batch" =>
              \A k \in 1..Len(results) :
                 EmptyPair(pairs[k]) => Sentinel(results[k])
        /\ (SingleReturned /\ EmptyPair(pair)) => Sentinel(ifd_result)

TierByThresholds(r) ==
    /\ r.tier = "easy" <=> r.ifd_score < 330
    /\ r.tier = "medium" <=> (330 <= r.ifd_score /\ r.ifd_score < 670)
    /\ r.tier = "hard" <=> r.ifd_score >= 670

RecommendationByCategory(r) ==
    /\ r.value_category \in {"high", "medium", "low"}
    /\ r.value_category = "high" =>
          r.recommendation = <<"High value - prioritize for training">>
    /\ r.value_category = "medium" =>
          r.recommendation = <<"Medium value - useful data">>
    /\ r.value_category = "low" =>
          r.recommendation = <<"Low value - less useful for training">>

\* C7 as claimed: in every returned record the recommendation is the text of
\* its value category.
C7_RecommendationFromCategory ==
    /\ op = "batch" =>
          \A k \in 1..Len(results) : RecommendationByCategory(results[k])
    /\ SingleReturned => RecommendationByCategory(ifd_result)

\* C7 as amended: the recommendation is the text of the value category in
\* every record of the batch operation and in every single-pair record
\* computed from two scorer answers; the invalid-pair record has category low
\* with the text "Invalid pair - missing question or answer", and the
\* heuristic-fallback record has category medium with "Heuristic scoring: "
\* followed by the error message.
C7_RecommendationFromCategoryAmended ==
    /\ op = "batch" =>
          \A k \in 1..Len(results) : RecommendationByCategory(results[k])
    /\ SingleScored => RecommendationByCategory(ifd_result)
    /\ (SingleReturned /\ EmptyPair(pair)) =>
          /\ ifd_result.value_category = "low"
          /\ ifd_result.recommendation =
                <<"Invalid pair - missing question or answer">>
    /\ SingleFellBack =>
          /\ ifd_result.value_category = "medium"
          /\ Len(ifd_result.recommendation) > 1
          /\ ifd_result.recommendation[1] = "Heuristic scoring: "

\* A batch run that returned a high-value and a medium-value record.
C7_Witness ==
    /\ op = "batch" /\ pc = "returned"
    /\ Len(results) = 2
    /\ results[1].value_category = "high"
    /\ results[2].value_category = "medium"

\* clamp(0, 1, (c/d)/3) when d > 0 and c otherwise, rounded to thousandths,
\* for scores c, d >= 0 in thousandths.
ExpectedBatchIfd(c, d) ==
    IF d > 0
    THEN (IF c >= 3 * d THEN 1000 ELSE (2000 * c + 3 * d) \div (6 * d))
    ELSE c

\* The tier and category of that value before rounding: (c/d)/3 < 0.33 iff
\* 100c < 99d, < 0.67 iff 100c < 201d, > 0.7 iff 10c > 21d, > 0.4 iff
\* 10c > 12d.
ExpectedBatchTier(c, d) ==
    IF d > 0
    THEN (IF 100 * c < 99 * d THEN "easy"
          ELSE IF 100 * c < 201 * d THEN "medium" ELSE "hard")
    ELSE (IF c < 330 THEN "easy" ELSE IF c < 670 THEN "medium" ELSE "hard")

ExpectedBatchCategory(c, d) ==
    IF d > 0
    THEN (IF 10 * c > 21 * d THEN "high"
          ELSE IF 10 * c > 12 * d THEN "medium" ELSE "low")
    ELSE (IF c > 700 THEN "high" ELSE IF c > 400 THEN "medium" ELSE "low")

\* C8: in the batch operation the record of pair k is a function of
\* conditioned_scores[k] and direct_scores[k] alone, the same for every
\* batch_size: ifd_score = clamp(0, 1, (conditioned/direct)/3) (conditioned
\* when direct is 0), tier and category by the shared thresholds.  With the
\* conditioned scores 0.3, 0.8 and the direct scores 0.5, 0.5 the records have
\* ifd_score 0.2 and 0.533, tiers easy and medium.
C8_BatchFormula ==
    op = "batch" =>
        /\ \A k \in 1..Len(results) :
              LET c == conditioned_scores[k]
                  d == direct_scores[k]
              IN  /\ results[k].ifd_score = ExpectedBatchIfd(c, d)
                  /\ results[k].tier = ExpectedBatchTier(c, d)
                  /\ results[k].value_category = ExpectedBatchCategory(c, d)
        /\ (pc = "returned" /\ conditioned_scores = <<300, 800>>
              /\ direct_scores = <<500, 500>>) =>
              /\ results[1].ifd_score = 200 /\ results[1].tier = "easy"
              /\ results[2].ifd_score = 533 /\ results[2].tier = "medium"

\* The example's scores reached with one pair per batch.
C8_Witness ==
    /\ op = "batch" /\ pc = "returned"
    /\ batch_size = 1
    /\ conditioned_scores = <<300, 800>>
    /\ direct_scores = <<500, 500>>
    /\ results[1].ifd_score = 200
    /\ results[2].ifd_score = 533

\* C9: every ifd_score returned by either operation is in [0.0, 1.0].
C9_IfdInUnitInterval ==
    /\ op = "batch" =>
          \A k \in 1..Len(results) :
             0 <= results[k].ifd_score /\ results[k].ifd_score <= 1000
    /\ SingleReturned => (0 <= ifd_result.ifd_score /\ ifd_result.ifd_score <= 1000)

\* The heuristic fallback returned an estimate that the clamp cut to 1.0 (one
\* word holding three lexicon terms).
C9_Witness ==
    /\ SingleFellBack
    /\ ifd_result.ifd_score = 1000
    /\ Len(SplitWs(pair.answer)) = 1

\* ceil(n / batch_size) for the running batch operation.
ExpectedBatches ==
    CHOOSE t \in 0..Len(pairs) :
        /\ t * batch_size >= Len(pairs)
        /\ t > 0 => (t - 1) * batch_size < Len(pairs)

\* C10: in a run of the batch operation chat is called once per batch in
\* Phase 1, batches ascending, then once per batch in Phase 2, batches
\* ascending, 2*ceil(n/batch_size) calls in all, each sending one request
\* upstream (none without credentials) whether or not earlier calls failed;
\* no record is built, and the operation does not return, before the last
\* Phase 2 call.
C10_CallOrder ==
    op = "batch" =>
        LET t == ExpectedBatches
        IN  /\ Len(calls) <= 2 * t
            /\ \A k \in 1..Len(calls) :
                  calls[k] = IF k <= t THEN [phase |-> 1, batch |-> k - 1]
                             ELSE [phase |-> 2, batch |-> k - 1 - t]
            /\ upstream_calls = (IF client THEN Len(calls) ELSE 0)
            /\ pc = "phase1" => Len(calls) < t
            /\ pc = "phase2" => (t <= Len(calls) /\ Len(calls) < 2 * t)
            /\ pc \in {"phase3", "returned"} => Len(calls) = 2 * t
            /\ Len(results) > 0 => Len(calls) = 2 * t

\* One pair with batch_size 2 (one batch, two calls), the last call failed
\* with credentials set.
C10_Witness ==
    /\ op = "batch" /\ pc = "returned"
    /\ Len(pairs) = 1 /\ batch_size = 2
    /\ client /\ ~chat_result.ok
    /\ Len(calls) = 2 /\ upstream_calls = 2

\* ---------------------------------------------------------------- C11

\* The entries a whole run with a callback leaves in trace: per batch of
\* Phase 1 an event and then the call, the same for Phase 2, then one
\* finalizing event per index 0, 10, 20, ... below n.
CallsWithEvents(t, phase, name) ==
    [j \in 1..(2 * t) |-> IF j % 2 = 1 THEN [kind |-> "event", phase |-> name]
                          ELSE [kind |-> "chat", phase |-> phase, batch |-> (j \div 2) - 1]]

FinalizingCount(n) == CHOOSE c \in 0..n : 10 * c >= n /\ (c > 0 => 10 * (c - 1) < n)

ExpectedTrace ==
    CallsWithEvents(ExpectedBatches, 1, "scoring_conditioned")
      \o CallsWithEvents(ExpectedBatches, 2, "scoring_direct")
      \o [j \in 1..FinalizingCount(Len(pairs)) |-> [kind |-> "event", phase |-> "finalizing"]]

EventsOf(log) == SelectSeq(log, LAMBDA x : x.kind = "event")

\* C11: with a progress callback the batch operation hands it exactly one
\* scoring_conditioned event before each Phase 1 scorer call, one
\* scoring_direct event before each Phase 2 scorer call, and in Phase 3 one
\* finalizing event before each pair whose index is a multiple of 10,
\* ceil(n/10) of them in all; there is no other event, the events of a phase
\* come before those of the next, and without a callback there is no event.
C11_EventsPerCall ==
    op = "batch" =>
        IF ~progress_callback THEN events = <<>>
        ELSE /\ Len(trace) <= Len(ExpectedTrace)
             /\ trace = SubSeq(ExpectedTrace, 1, Len(trace))
             /\ pc = "returned" => trace = ExpectedTrace
             /\ [k \in 1..Len(events) |-> events[k].phase]
                  = [k \in 1..Len(EventsOf(trace)) |-> EventsOf(trace)[k].phase]
             /\ pc \in {"phase3", "returned"} =>
                   Len(events) = 2 * ExpectedBatches + FinalizingCount(i)

\* 21 pairs in batches of 4 with a callback: six events in each scoring phase
\* and the finalizing events of the indices 0, 10 and 20.
C11_Witness ==
    /\ op = "batch" /\ pc = "returned" /\ progress_callback
    /\ Len(pairs) = 21 /\ batch_size = 4
    /\ Len(calls) = 12
    /\ Len(events) = 15
    /\ events[12].phase = "scoring_direct"
    /\ \A k \in 13..15 : events[k].phase = "finalizing"
    /\ events[15].pairs_done = 20

\* ---------------------------------------------------------------- C12

CarriesError(r) == r.recommendation[1] = "Heuristic scoring: "

DegradedIsMarked(r) == r.conditioned_score = 0 \/ r.direct_score = 0 \/ CarriesError(r)

\* C12: the returned record tells a caller whether the pair was scored by the
\* scorer or degraded by a fallback: a record whose score comes from a
\* fallback (the heuristic of the single-pair operation, the neutral 0.5 of a
\* failed batch) has a zero conditioned or direct score or a recommendation
\* carrying the error message.  Stated for runs with credentials set, on the
\* pairs of the last batch when its Phase 2 call failed.
C12_DegradedIsVisible ==
    client =>
        /\ (op = "batch" /\ pc = "returned" /\ ~chat_result.ok) =>
              \A j \in BatchPositions(LastCall.batch) : DegradedIsMarked(results[j])
        /\ SingleFellBack => DegradedIsMarked(ifd_result)

\* ---------------------------------------------------------------- C13

\* estimate_ifd_heuristic of core.py run on the answers of SinglePairs, rounded
\* to three places, in thousandths.
HeuristicOf(answer) ==
    CASE answer = <<" ">> -> 0
      [] answer = <<"a", " ", "b">> -> 304
      [] answer = <<"a", " ", "a">> -> 154
      [] answer = <<"a", " ", "b", " ", "c">> -> 306
      [] answer = <<"A", "n", "a", "l", "i", "s", "i", "s", " ",
                    "e", "m", "p", "i", "r", "i", "s">> -> 604
      [] answer = <<"a", "n", "a", "l", "i", "s", "i", "s", "e", "m", "p", "i", "r",
                    "i", "s", "o", "n", "t", "o", "l", "o", "g", "i">> -> 1000

C13_State ==
    op = "single" =>
        /\ pc \in {"conditioned", "direct", "returned"}
        /\ Len(calls) <= 2
        /\ pc = "conditioned" => Len(calls) = 0
        /\ pc = "direct" => (Len(calls) = 1 /\ chat_result.ok)
        /\ pc = "returned" =>
              DOMAIN ifd_result = {"ifd_score", "conditioned_score", "direct_score",
                                   "tier", "value_category", "recommendation"}
        /\ (pc = "returned" /\ ~EmptyPair(pair) /\ ~chat_result.ok) =>
              ifd_result = [ifd_score |-> HeuristicOf(pair.answer),
                            conditioned_score |-> 0, direct_score |-> 0,
                            tier |-> "medium", value_category |-> "medium",
                            recommendation |->
                                <<"Heuristic scoring: ">> \o chat_result.error]

C13_Step ==
    /\ (op = "single" /\ pc \in {"conditioned", "direct"} /\ ~chat_result'.ok) =>
          (pc' = "returned" /\ Len(calls') = Len(calls) + 1)
    /\ (op = "single" /\ pc = "returned") => calls' = calls

\* C13: for a pair with a non-empty question and a non-empty answer the
\* single-pair operation never raises: it always returns a full record.  When
\* a scorer call fails it makes no further scorer call and returns the
\* heuristic estimate as ifd_score, conditioned_score and direct_score 0.0,
\* and a recommendation made of "Heuristic scoring: " and the message of the
\* error that call raised.
C13_FailureFallsBack == []C13_State /\ [][C13_Step]_vars

\* The second call failed with a rate-limit error after the first was rated 8:
\* the record is the heuristic one, the 0.8 is gone.
C13_Witness ==
    /\ op = "single" /\ pc = "returned"
    /\ pair.answer = <<"a", " ", "b">> /\ pair.question = <<"Q", "1">>
    /\ Len(calls) = 2
    /\ conditioned_score = 800
    /\ ~chat_result.ok
    /\ ifd_result.ifd_score = 304
    /\ ifd_result.conditioned_score = 0
    /\ ifd_result.recommendation
         = <<"Heuristic scoring: ",
             "API rate limit exceeded. Please try again later or upgrade your plan.">>

\* ---------------------------------------------------------------- C14

\* C14: chat checks the configuration first: without a client it sends nothing
\* upstream and fails with the configuration error.  With a client every
\* invocation sends exactly one request (no retry) and either returns the
\* response text, the empty string when the response has no content, or fails
\* with an error.
C14_OneRequestPerCall ==
    /\ upstream_calls = (IF client THEN Len(calls) ELSE 0)
    /\ ~client => upstream.type = "none"
    /\ (calls # <<>> /\ ~client) =>
          chat_result = [ok |-> FALSE,
                         error |-> <<"OpenAI client not initialized. Check API credentials.">>]
    /\ (calls # <<>> /\ client) =>
          /\ upstream.type \in {"content", "no_content", "error"}
          /\ upstream.type = "content" =>
                chat_result = [ok |-> TRUE, text |-> upstream.text]
          /\ upstream.type = "no_content" => chat_result = [ok |-> TRUE, text |-> <<>>]
          /\ upstream.type = "error" => (~chat_result.ok /\ chat_result.error # <<>>)

\* The second of two invocations got a response without content: two requests
\* were sent and the empty text came back.
C14_Witness ==
    /\ client /\ Len(calls) = 2 /\ upstream_calls = 2
    /\ upstream.type = "no_content"
    /\ chat_result = [ok |-> TRUE, text |-> <<>>]

\* ---------------------------------------------------------------- C15

ReportsBadCredentials(msg) ==
    \/ \E k \in 1..(Len(msg) - 2) : SubSeq(msg, k, k + 2) = <<"4", "0", "1">>
    \/ \E k \in 1..(Len(msg) - 11) :
          Lower(SubSeq(msg, k, k + 11))
            = <<"u", "n", "a", "u", "t", "h", "o", "r", "i", "z", "e", "d">>

\* C15: whenever the upstream failure reports invalid credentials (its message
\* contains "401" or "unauthorized"), chat fails with the authentication error
\* "Invalid API key. Please check your credentials.", not with the rate-limit
\* error or the generic error, and verify_connection flags it as an
\* authentication error.
C15_BadCredentialsAreAuthError ==
    (client /\ calls # <<>> /\ upstream.type = "error"
       /\ ReportsBadCredentials(upstream.msg)) =>
        /\ chat_result
             = [ok |-> FALSE, error |-> <<"Invalid API key. Please check your credentials.">>]
        /\ (op = "client" /\ "is_auth_error" \in DOMAIN verify_response
               /\ verify_response.error = chat_result.error)
              => (verify_response.is_auth_error /\ ~verify_response.is_rate_limit)

\* ---------------------------------------------------------------- C16

\* The claimed score of a token: strip what is not a digit; 1..10 scores n/10,
\* anything else 0.5.  A digit string is an integer of 1..10 exactly when,
\* leading zeros dropped, it is one of "1".."9" or "10".
ExpectedTokenScore(tok) ==
    LET ds == SelectSeq(tok, LAMBDA c : c \in {"0", "1", "2", "3", "4", "5", "6", "7",
                                                "8", "9", "sup2"})
        nz == {k \in 1..Len(ds) : ds[k] # "0"}
        sig == IF nz = {} THEN <<>>
               ELSE SubSeq(ds, CHOOSE k \in nz : \A m \in nz : k <= m, Len(ds))
        ones == <<"1", "2", "3", "4", "5", "6", "7", "8", "9">>
    IN  IF "sup2" \in Range(ds) THEN 500
        ELSE IF Len(sig) = 1 THEN 100 * (CHOOSE v \in 1..9 : ones[v] = sig[1])
        ELSE IF sig = <<"1", "0">> THEN 1000
        ELSE 500

TenthScores == {100 * v : v \in 1..10}

\* C16: in batch mode each comma-delimited token of the response is scored by
\* stripping its non-digit characters: digits that form an integer n of 1..10
\* score n/10, anything else 0.5.  So every conditioned_score and
\* direct_score of batch mode is one of 0.1, 0.2, ..., 1.0, a direct_score is
\* never 0, and the response "abc,11,-" to a batch of three pairs yields 0.5,
\* 0.5, 0.5.
C16_TokenScores ==
    op = "batch" =>
        /\ Range(conditioned_scores) \cup Range(direct_scores) \subseteq TenthScores
        /\ \A k \in 1..Len(results) :
              /\ results[k].conditioned_score \in TenthScores
              /\ results[k].direct_score \in TenthScores
        /\ (calls # <<>> /\ chat_result.ok) =>
              LET acc == IF LastCall.phase = 1 THEN conditioned_scores
                         ELSE direct_scores
                  tokens == SplitOn(RemoveSpaces(chat_result.text), ",")
                  first == PairsBefore(LastCall.batch)
              IN  /\ \A j \in 1..Min(Len(tokens), Len(acc) - first) :
                         acc[first + j] = ExpectedTokenScore(tokens[j])
                  /\ (chat_result.text = <<"a", "b", "c", ",", "1", "1", ",", "-">>
                        /\ Len(pairs) = 3 /\ batch_size >= 3)
                       => acc = <<500, 500, 500>>

\* The response "abc,11,-" to the Phase 2 prompt of a batch of three pairs,
\* after a Phase 1 response "x1y0,003" that rated the first pair 1.0 and the
\* second 0.3.
C16_Witness ==
    /\ op = "batch" /\ pc = "returned"
    /\ Len(pairs) = 3
    /\ chat_result = [ok |-> TRUE, text |-> <<"a", "b", "c", ",", "1", "1", ",", "-">>]
    /\ direct_scores = <<500, 500, 500>>
    /\ conditioned_scores = <<1000, 300, 500>>
    /\ results[2].conditioned_score = 300 /\ results[2].direct_score = 500

\* ---------------------------------------------------------------- C17

\* What a call adds for a batch of n pairs, read off its own outcome alone.
ScoresOfOutcome(r, n) ==
    IF ~r.ok THEN [j \in 1..n |-> 500]
    ELSE LET tokens == SplitOn(RemoveSpaces(r.text), ",")
         IN  [j \in 1..n |-> IF j <= Len(tokens) THEN ExpectedTokenScore(tokens[j])
                             ELSE 500]

C17_State ==
    op = "batch" =>
        /\ pc = "phase1" => Len(conditioned_scores) = PairsBefore(batch_idx)
        /\ pc = "phase2" => Len(direct_scores) = PairsBefore(batch_idx)
        /\ \A k \in 1..Len(results) :
              /\ results[k].conditioned_score = conditioned_scores[k]
              /\ results[k].direct_score = direct_scores[k]

\* A step that calls the scorer for batch k of a phase writes the positions of
\* batch k in that phase's accumulator, with scores read off that call's
\* outcome, and changes no other score; a step that calls nobody changes none.
C17_Step ==
    (op = "batch" /\ op' = "batch") =>
        IF Len(calls') = Len(calls) + 1
        THEN LET c == calls'[Len(calls')]
                 size == Cardinality(BatchPositions(c.batch))
                 added == ScoresOfOutcome(chat_result', size)
             IN  /\ size > 0
                 /\ IF c.phase = 1
                    THEN /\ Len(conditioned_scores) = c.batch * batch_size
                         /\ conditioned_scores' = conditioned_scores \o added
                         /\ direct_scores' = direct_scores
                    ELSE /\ Len(direct_scores) = c.batch * batch_size
                         /\ direct_scores' = direct_scores \o added
                         /\ conditioned_scores' = conditioned_scores
        ELSE /\ conditioned_scores' = conditioned_scores
             /\ direct_scores' = direct_scores

\* C17: a failure or a malformed response stays in its batch: the conditioned
\* (direct) scores of the pairs of batch k are a function of the outcome of
\* batch k's Phase 1 (Phase 2) call alone, so runs that differ only in the
\* outcome of another batch give batch k the same scores, and no score moves
\* into the positions of another batch.
C17_ContainedInBatch == []C17_State /\ [][C17_Step]_vars

\* Batches of one pair: the first batch was answered "3,8" in both phases, the
\* second " 10 , 1 ,2,9" in Phase 1 and with a failure in Phase 2.  The 8 did
\* not move to the second pair, and the failure left the first pair's 0.3.
C17_Witness ==
    /\ op = "batch" /\ pc = "returned"
    /\ Len(pairs) = 2 /\ batch_size = 1
    /\ conditioned_scores = <<300, 1000>>
    /\ direct_scores = <<300, 500>>
    /\ ~chat_result.ok
    /\ results[1].direct_score = 300 /\ results[2].direct_score = 500

\* ---------------------------------------------------------------- C18

\* C18: over the whole sequence of progress events of a run (Phase 1, then
\* Phase 2, then Phase 3) pairs_done never exceeds total_pairs and never
\* decreases from one event to the next.  Stated for runs with credentials
\* set.
C18_PairsDoneMonotone ==
    (client /\ op = "batch") =>
        /\ \A k \in 1..Len(events) : events[k].pairs_done <= events[k].total_pairs
        /\ \A k \in 1..(Len(events) - 1) :
              events[k].pairs_done <= events[k + 1].pairs_done

====
